---- MODULE Spec2Model ----
(***************************************************************************)
(* Model of malmo::VideoFrameWriter (src/Malmo/src/VideoFrameWriter.cpp):  *)
(* the throttle gate of write(), the hand-off queue frame_buffer with its  *)
(* frames_available flag and condition variable, the consumer thread       *)
(* writeFrames(), and the open()/close() lifecycle.                        *)
(*                                                                         *)
(* Threads: the callers of the public operations and the consumer threads  *)
(* started by open().  In Spec every critical section that holds           *)
(* frame_buffer_mutex or frames_available_mutex is one step; SpecLocks      *)
(* splits each into taking the mutex and the guarded statements.            *)
(* write_mutex is held over several steps in both.  is_open is read by the  *)
(* consumer without a lock; a racing read yields the old or the new value,  *)
(* which is what the interleaving of ConsLoop with CloseBegin yields.       *)
(*                                                                         *)
(* open() and close() take no lock against write() (they touch             *)
(* last_timestamp, frame_index and frame_info_stream unguarded), so the    *)
(* model covers the callers that do not overlap a lifecycle call with a    *)
(* write() call; write() calls overlap each other freely.  write() is      *)
(* called once open() has been called: before that the gate would compare  *)
(* against a default-constructed last_timestamp and read a frame_index     *)
(* that was never set.  write() on a pipeline that was closed again is     *)
(* covered.                                                                *)
(*                                                                         *)
(* Specifications: Spec and FairSpec (callers submit 1 x 1 RGB frames),     *)
(* SpecLocks (the same with the mutexes explicit), SpecFrames (frames of    *)
(* two channels are submitted too), SpecZeroWidth (frames of no width are   *)
(* submitted too), SpecConv (the consumer thread on one queued frame, for   *)
(* every frame of 3 or 4 channels within the bounds).                       *)
(***************************************************************************)
EXTENDS Integers, Sequences, FiniteSets

\* ---------------------------------------------------------------- bounds
MaxWrites == 2      \* write() calls in a run
MaxOpens == 2       \* open() calls in a run (one consumer thread each)
MaxTime == 2        \* timestamps and clock readings range over 0..MaxTime
MaxWidth == 1       \* frames are up to MaxWidth pixels wide and 1 pixel high
MaxByte == 1        \* pixel bytes range over 0..MaxByte

\* ------------------------------------------------------ program constants
\* frame_duration = 1000ms / frames_per_second, in the model's time unit
FrameDuration == 2
\* value of a default-constructed boost::posix_time::ptime (last_timestamp
\* before the first open()); never used in arithmetic
NotADateTime == 0 - 1000

Producers == {1, 2}
Threads == 1..MaxOpens
Times == 0..MaxTime

\* What a caller puts into a frame besides its timestamp: channels, width,
\* height and pixels (bytes, width * height * channels of them).
Kind(c, w, h, px) == [channels |-> c, width |-> w, height |-> h, pixels |-> px]

\* Who can hold frame_buffer_mutex or frames_available_mutex: a caller of
\* write(), a consumer thread, the caller of close().
Free == <<>>
Holders ==
  {<<"write", p>> : p \in Producers} \cup {<<"writeFrames", i>> : i \in Threads}
    \cup {<<"close">>}

\* A 1 x 1 RGB frame.
PlainKind == Kind(3, 1, 1, <<0, 0, 0>>)

\* The frames of 3 or 4 channels within the bounds, with every content.
Bytes == 0..MaxByte
WellFormedKinds ==
  UNION {{Kind(c, w, 1, px) : px \in [1..(w * c) -> Bytes]} :
           c \in {3, 4}, w \in 1..MaxWidth}

\* A frame of two channels, and a frame of no width.
TwoChannelKind == Kind(2, 1, 1, <<0, 0>>)
ZeroWidthKind == Kind(3, 0, 1, <<>>)

Kinds == WellFormedKinds \cup {TwoChannelKind, ZeroWidthKind}

\* TimestampedVideoFrame: the fields the pipeline reads, and an id that
\* tells the frames apart: an accepted frame's id is its place in the order
\* of acceptance (0 for the default-constructed frame of writeFrames()).
Frame(n, t, k) ==
  [id |-> n, timestamp |-> t, width |-> k.width, height |-> k.height,
   channels |-> k.channels, pixels |-> k.pixels]
NoFrame ==
  [id |-> 0, timestamp |-> NotADateTime, width |-> 0, height |-> 0,
   channels |-> 0, pixels |-> <<>>]

VARIABLES
  is_open,              \* this->is_open
  frame_info_open,      \* frame_info_stream is open
  frame_info,           \* frame lines of frame_info.txt (after the header)
  start_time,           \* this->start_time
  last_timestamp,       \* this->last_timestamp
  frame_index,          \* this->frame_index
  frames_available,     \* this->frames_available
  frame_buffer,         \* this->frame_buffer (front first)
  frame_writer_thread,  \* this->frame_writer_thread: thread id, 0 = none
  write_mutex,          \* holder of this->write_mutex, 0 = free
  wr_pc, wr_frame,      \* per caller of write(): position, argument
  ctl_pc, ctl_op,       \* the caller of open()/close(): position, operation
  thr_pc, thr_count, thr_frame, \* per consumer thread: position, count, frame
  nthreads,             \* threads started so far
  nwrites,              \* write() calls so far
  accepted,             \* history: frames that passed the gate, in order
  sink,                 \* history: completed doWrite calls, in order
  first_pending,        \* history: no write() has reached the gate since open()
  frame_buffer_mutex,   \* holder of this->frame_buffer_mutex, or Free
  frames_available_mutex, \* holder of this->frames_available_mutex, or Free
  frame_kinds           \* the kinds of frame the callers of this run submit

vars == <<is_open, frame_info_open, frame_info, start_time, last_timestamp,
          frame_index, frames_available, frame_buffer, frame_writer_thread,
          write_mutex, wr_pc, wr_frame, ctl_pc, ctl_op, thr_pc, thr_count,
          thr_frame, nthreads, nwrites, accepted, sink, first_pending,
          frame_buffer_mutex, frames_available_mutex, frame_kinds>>

shared == <<is_open, frame_info_open, frame_info, start_time, last_timestamp,
            frame_index, frames_available, frame_buffer, frame_writer_thread>>
wrvars == <<write_mutex, wr_pc, wr_frame, nwrites, accepted>>
ctlvars == <<ctl_pc, ctl_op, nthreads, first_pending>>
thrvars == <<thr_pc, thr_count, thr_frame, sink>>
lockvars == <<frame_buffer_mutex, frames_available_mutex>>

\* line 103: int count = 0
InitialCount == 0

\* The constructor (lines 35-50) sets is_open only; frame_index and
\* frames_available are uninitialised until open(), last_timestamp and
\* start_time are default-constructed.
Constructed ==
  /\ is_open = FALSE
  /\ frame_info_open = FALSE
  /\ frame_info = <<>>
  /\ start_time = NotADateTime
  /\ last_timestamp = NotADateTime
  /\ frame_index \in 0..1
  /\ frames_available \in BOOLEAN
  /\ frame_buffer = <<>>
  /\ frame_writer_thread = 0
  /\ write_mutex = 0
  /\ wr_pc = [p \in Producers |-> "idle"]
  /\ wr_frame = [p \in Producers |-> NoFrame]
  /\ ctl_pc = "idle"
  /\ ctl_op = "none"
  /\ thr_pc = [i \in Threads |-> "none"]
  /\ thr_count = [i \in Threads |-> InitialCount]
  /\ thr_frame = [i \in Threads |-> NoFrame]
  /\ nthreads = 0
  /\ nwrites = 0
  /\ accepted = <<>>
  /\ sink = <<>>
  /\ first_pending = FALSE
  /\ frame_buffer_mutex = Free
  /\ frames_available_mutex = Free

\* A run whose callers submit 1 x 1 RGB frames.
Init == Constructed /\ frame_kinds = {PlainKind}

\* frames_available_cond.notify_one(): a thread blocked in wait() returns
\* from it and re-evaluates the wait loop's condition.
Notified(pcs) ==
  IF \E i \in Threads : pcs[i] = "waiting"
    THEN LET i == CHOOSE j \in Threads : pcs[j] = "waiting"
         IN  [pcs EXCEPT ![i] = "check"]
    ELSE pcs

\* ------------------------------------------------------------- write()
\* Mutant of Due: any frame not older than the last accepted one passes.
Due_NotOlder(ts, last) == ts - last >= 0

\* Mutant of Due: a frame exactly frame_duration later is not due yet.
Due_Strict(ts, last) == ts - last > FrameDuration

\* line 160: frame.timestamp - this->last_timestamp >= this->frame_duration
Due(ts, last) == ts - last >= FrameDuration

\* line 160-161 over a sequence of write() calls with the timestamps tss,
\* for a writer whose frame_duration is dur and whose last_timestamp is
\* last: the timestamps that pass the gate.
RECURSIVE Passing(_, _, _)
Passing(tss, last, dur) ==
  IF tss = <<>> THEN <<>>
  ELSE IF Head(tss) - last >= dur
    THEN <<Head(tss)>> \o Passing(Tail(tss), Head(tss), dur)
    ELSE Passing(Tail(tss), last, dur)

\* Mutant of GateOutcomes: every frame passes the gate.
GateOutcomes_All(ts, last) == {TRUE}

\* The outcomes of the test of line 160.  Against a last_timestamp that
\* is not_a_date_time the comparison is decided by boost's special-value
\* arithmetic, which is not part of this source: both outcomes are kept.
GateOutcomes(ts, last) ==
  IF last = NotADateTime THEN BOOLEAN ELSE {Due(ts, last)}

\* line 164-167: the line appended to frame_info.txt; the stream ignores
\* output while it is not open.
InfoLine(f, idx) == [timestamp |-> f.timestamp, name |-> idx, id |-> f.id]

\* line 156-158: a caller enters write(frame) and takes write_mutex.
WriteLock(p) ==
  /\ wr_pc[p] = "idle"
  /\ ctl_pc = "idle"
  /\ nthreads >= 1
  /\ nwrites < MaxWrites
  /\ write_mutex = 0
  /\ \E t \in Times, k \in frame_kinds :
       wr_frame' = [wr_frame EXCEPT ![p] = Frame(Len(accepted) + 1, t, k)]
  /\ write_mutex' = p
  /\ wr_pc' = [wr_pc EXCEPT ![p] = "gate"]
  /\ nwrites' = nwrites + 1
  /\ UNCHANGED <<shared, ctlvars, thrvars, accepted>>
  /\ UNCHANGED <<lockvars, frame_kinds>>

\* line 160-169: the throttle gate; on acceptance last_timestamp, the
\* metadata line and frame_index; otherwise write() returns.
WriteGate(p) ==
  /\ wr_pc[p] = "gate"
  /\ \E acc \in GateOutcomes(wr_frame[p].timestamp, last_timestamp) :
       IF acc
         THEN /\ last_timestamp' = wr_frame[p].timestamp
              /\ frame_info' = IF frame_info_open
                                 THEN Append(frame_info, InfoLine(wr_frame[p], frame_index))
                                 ELSE frame_info
              /\ frame_index' = frame_index + 1
              /\ accepted' = Append(accepted,
                               [id |-> wr_frame[p].id,
                                timestamp |-> wr_frame[p].timestamp,
                                session |-> IF is_open THEN nthreads ELSE 0])
              /\ wr_pc' = [wr_pc EXCEPT ![p] = "push"]
              /\ UNCHANGED <<write_mutex, wr_frame>>
         ELSE /\ wr_pc' = [wr_pc EXCEPT ![p] = "idle"]
              /\ wr_frame' = [wr_frame EXCEPT ![p] = NoFrame]
              /\ write_mutex' = 0
              /\ UNCHANGED <<last_timestamp, frame_info, frame_index, accepted>>
  /\ first_pending' = FALSE
  /\ UNCHANGED <<is_open, frame_info_open, start_time, frames_available,
                 frame_buffer, frame_writer_thread, nwrites, ctl_pc, ctl_op,
                 nthreads, thrvars>>
  /\ UNCHANGED <<lockvars, frame_kinds>>

\* line 171-175: push under frame_buffer_mutex.
WritePush(p) ==
  /\ wr_pc[p] = "push"
  /\ frame_buffer' = Append(frame_buffer, wr_frame[p])
  /\ wr_pc' = [wr_pc EXCEPT ![p] = "flag"]
  /\ UNCHANGED <<is_open, frame_info_open, frame_info, start_time,
                 last_timestamp, frame_index, frames_available,
                 frame_writer_thread, write_mutex, wr_frame, nwrites,
                 accepted, ctlvars, thrvars>>
  /\ UNCHANGED <<lockvars, frame_kinds>>

\* line 177-181: frames_available = true under frames_available_mutex.
WriteFlag(p) ==
  /\ wr_pc[p] = "flag"
  /\ frames_available' = TRUE
  /\ wr_pc' = [wr_pc EXCEPT ![p] = "notify"]
  /\ UNCHANGED <<is_open, frame_info_open, frame_info, start_time,
                 last_timestamp, frame_index, frame_buffer,
                 frame_writer_thread, write_mutex, wr_frame, nwrites,
                 accepted, ctlvars, thrvars>>
  /\ UNCHANGED <<lockvars, frame_kinds>>

\* line 183-185: notify_one, then write() returns and releases write_mutex.
WriteNotify(p) ==
  /\ wr_pc[p] = "notify"
  /\ thr_pc' = Notified(thr_pc)
  /\ wr_pc' = [wr_pc EXCEPT ![p] = "idle"]
  /\ wr_frame' = [wr_frame EXCEPT ![p] = NoFrame]
  /\ write_mutex' = 0
  /\ UNCHANGED <<shared, nwrites, accepted, ctlvars, thr_count, thr_frame, sink>>
  /\ UNCHANGED <<lockvars, frame_kinds>>

\* ------------------------------------------------------ open() / close()
WritersIdle == \A p \in Producers : wr_pc[p] = "idle"

\* Mutant of CloseHead: close() does not test is_open.
CloseHead_NoTest(op) ==
  /\ ctl_pc = "idle"
  /\ WritersIdle
  /\ frame_info_open' = FALSE
  /\ is_open' = FALSE
  /\ ctl_pc' = "close_flag"
  /\ ctl_op' = op
  /\ UNCHANGED <<frame_info, start_time, last_timestamp, frame_index,
                 frames_available, frame_buffer, frame_writer_thread,
                 wrvars, nthreads, first_pending, thrvars>>
  /\ UNCHANGED <<lockvars, frame_kinds>>

\* line 84-87: the test of is_open, frame_info_stream.close(), is_open = false.
CloseHead(op) ==
  /\ ctl_pc = "idle"
  /\ WritersIdle
  /\ IF is_open
       THEN /\ frame_info_open' = FALSE
            /\ is_open' = FALSE
            /\ ctl_pc' = "close_flag"
            /\ ctl_op' = op
       ELSE /\ ctl_pc' = IF op = "open" THEN "open_body" ELSE "idle"
            /\ ctl_op' = IF op = "open" THEN "open" ELSE "none"
            /\ UNCHANGED <<is_open, frame_info_open>>
  /\ UNCHANGED <<frame_info, start_time, last_timestamp, frame_index,
                 frames_available, frame_buffer, frame_writer_thread,
                 wrvars, nthreads, first_pending, thrvars>>
  /\ UNCHANGED <<lockvars, frame_kinds>>

\* line 82: a call of close().
CloseBegin == CloseHead("close")

\* line 57-59: a call of open(), which starts with close().
OpenBegin == nthreads < MaxOpens /\ CloseHead("open")

\* Mutant of CloseFlag: close() does not force frames_available.
CloseFlag_NoForce ==
  /\ ctl_pc = "close_flag"
  /\ ctl_pc' = "close_notify"
  /\ UNCHANGED <<shared, wrvars, ctl_op, nthreads, first_pending, thrvars>>
  /\ UNCHANGED <<lockvars, frame_kinds>>

\* line 89-93: frames_available = true under frames_available_mutex.
CloseFlag ==
  /\ ctl_pc = "close_flag"
  /\ frames_available' = TRUE
  /\ ctl_pc' = "close_notify"
  /\ UNCHANGED <<is_open, frame_info_open, frame_info, start_time,
                 last_timestamp, frame_index, frame_buffer,
                 frame_writer_thread, wrvars, ctl_op, nthreads,
                 first_pending, thrvars>>
  /\ UNCHANGED <<lockvars, frame_kinds>>

\* line 95: frames_available_cond.notify_one().
CloseNotify ==
  /\ ctl_pc = "close_notify"
  /\ thr_pc' = Notified(thr_pc)
  /\ ctl_pc' = "close_join"
  /\ UNCHANGED <<shared, wrvars, ctl_op, nthreads, first_pending,
                 thr_count, thr_frame, sink>>
  /\ UNCHANGED <<lockvars, frame_kinds>>

\* Mutant of Joined: close() does not wait for the thread.
Joined_NoWait(t) == TRUE

\* line 97: frame_writer_thread.join() returns once the thread has finished.
Joined(t) == t = 0 \/ thr_pc[t] = "done"

\* line 97-99: the join completes and close() returns (into open() when
\* open() called it).
CloseJoin ==
  /\ ctl_pc = "close_join"
  /\ Joined(frame_writer_thread)
  /\ frame_writer_thread' = 0
  /\ ctl_pc' = IF ctl_op = "open" THEN "open_body" ELSE "idle"
  /\ ctl_op' = IF ctl_op = "open" THEN "open" ELSE "none"
  /\ UNCHANGED <<is_open, frame_info_open, frame_info, start_time,
                 last_timestamp, frame_index, frames_available, frame_buffer,
                 wrvars, nthreads, first_pending, thrvars>>
  /\ UNCHANGED <<lockvars, frame_kinds>>

\* Mutant of InitialLastTimestamp: last_timestamp starts at start_time.
InitialLastTimestamp_Now(now) == now

\* line 69: this->last_timestamp = this->start_time - this->frame_duration
InitialLastTimestamp(now) == now - FrameDuration

\* line 61-74: the rest of open(): the stream is reopened (truncating the
\* file), the state is reset and the consumer thread is started.
OpenBody ==
  /\ ctl_pc = "open_body"
  /\ frame_info_open' = TRUE
  /\ frame_info' = <<>>
  /\ is_open' = TRUE
  /\ \E now \in Times :
       /\ start_time' = now
       /\ last_timestamp' = InitialLastTimestamp(now)
  /\ frame_index' = 0
  /\ frames_available' = FALSE
  /\ nthreads' = nthreads + 1
  /\ frame_writer_thread' = nthreads + 1
  /\ thr_pc' = [thr_pc EXCEPT ![nthreads + 1] = "loop"]
  /\ first_pending' = TRUE
  /\ ctl_pc' = "idle"
  /\ ctl_op' = "none"
  /\ UNCHANGED <<frame_buffer, wrvars, thr_count, thr_frame, sink>>
  /\ UNCHANGED <<lockvars, frame_kinds>>

\* ------------------------------------------------------- writeFrames()
\* line 104: the test of while (this->is_open); when it fails the thread
\* ends and its local count is gone.
ConsLoop(i) ==
  /\ thr_pc[i] = "loop"
  /\ thr_pc' = [thr_pc EXCEPT ![i] = IF is_open THEN "check" ELSE "done"]
  /\ thr_count' = [thr_count EXCEPT ![i] = IF is_open THEN @ ELSE 0]
  /\ UNCHANGED <<shared, wrvars, ctlvars, thr_frame, sink>>
  /\ UNCHANGED <<lockvars, frame_kinds>>

\* line 105-111: under frames_available_mutex, leave the wait loop when
\* frames_available is set, else block in wait().
ConsCheck(i) ==
  /\ thr_pc[i] = "check"
  /\ thr_pc' = [thr_pc EXCEPT ![i] = IF frames_available THEN "pop" ELSE "waiting"]
  /\ UNCHANGED <<shared, wrvars, ctlvars, thr_count, thr_frame, sink>>
  /\ UNCHANGED <<lockvars, frame_kinds>>

\* line 109: wait() may return without a notification.
ConsSpurious(i) ==
  /\ thr_pc[i] = "waiting"
  /\ thr_pc' = [thr_pc EXCEPT ![i] = "check"]
  /\ UNCHANGED <<shared, wrvars, ctlvars, thr_count, thr_frame, sink>>
  /\ UNCHANGED <<lockvars, frame_kinds>>

\* Mutant of Front: the newest frame is taken instead of the oldest.
Front_Back(q) == q[Len(q)]

\* line 119: frame = this->frame_buffer.front()
Front(q) == Head(q)

\* line 120: this->frame_buffer.pop()
Popped(q) == Tail(q)

\* line 114-122: under frame_buffer_mutex, take the front frame if there is
\* one; frame stays default-constructed (width 0) otherwise.
ConsPop(i) ==
  /\ thr_pc[i] = "pop"
  /\ IF Len(frame_buffer) > 0
       THEN /\ thr_frame' = [thr_frame EXCEPT ![i] = Front(frame_buffer)]
            /\ frame_buffer' = Popped(frame_buffer)
       ELSE /\ thr_frame' = [thr_frame EXCEPT ![i] = NoFrame]
            /\ UNCHANGED frame_buffer
  /\ thr_pc' = [thr_pc EXCEPT ![i] = "test"]
  /\ UNCHANGED <<is_open, frame_info_open, frame_info, start_time,
                 last_timestamp, frame_index, frames_available,
                 frame_writer_thread, wrvars, ctlvars, thr_count, sink>>
  /\ UNCHANGED <<lockvars, frame_kinds>>

\* line 124-129: a zero-width frame ends the drain: frames_available = false
\* under frames_available_mutex, break.
ConsClear(i) ==
  /\ thr_pc[i] = "test"
  /\ thr_frame[i].width = 0
  /\ frames_available' = FALSE
  /\ thr_pc' = [thr_pc EXCEPT ![i] = "loop"]
  /\ UNCHANGED <<is_open, frame_info_open, frame_info, start_time,
                 last_timestamp, frame_index, frame_buffer,
                 frame_writer_thread, wrvars, ctlvars, thr_count, thr_frame,
                 sink>>
  /\ UNCHANGED <<lockvars, frame_kinds>>

\* Mutant of Supported: a frame of two channels is handled as RGB.
Supported_Two(c) == c \in {2, 3, 4}

\* line 131, 144: the channel counts that have a branch.
Supported(c) == c \in {3, 4}

\* Mutant of OutPixels: the first byte of a pixel is replicated, not the
\* fourth.
OutPixels_First(f) ==
  IF f.channels = 4
    THEN [j \in 1..(f.width * f.height * 3) |-> f.pixels[((j - 1) \div 3) * 4 + 1]]
    ELSE f.pixels

\* line 131-148: the bytes handed to doWrite.  channels == 4: out_pixels
\* of width * height * 3 bytes, out_pixels[i*3], [i*3+1], [i*3+2] =
\* frame.pixels[i*4+3] (sequences count from 1); otherwise &frame.pixels[0].
OutPixels(f) ==
  IF f.channels = 4
    THEN [j \in 1..(f.width * f.height * 3) |-> f.pixels[((j - 1) \div 3) * 4 + 4]]
    ELSE f.pixels

\* line 131-149, up to the call: pixel conversion done and doWrite entered,
\* or std::runtime_error thrown out of the thread function.
ConsCallSink(i) ==
  /\ thr_pc[i] = "test"
  /\ thr_frame[i].width # 0
  /\ thr_pc' = [thr_pc EXCEPT ![i] =
                  IF Supported(thr_frame[i].channels) THEN "dowrite" ELSE "terminated"]
  /\ UNCHANGED <<shared, wrvars, ctlvars, thr_count, thr_frame, sink>>
  /\ UNCHANGED <<lockvars, frame_kinds>>

\* Mutant of NextCount: count is not advanced.
NextCount_Stuck(c) == c

\* line 151: count++
NextCount(c) == c + 1

\* line 140/147 and 151: doWrite(pixels, width, height, count) returns,
\* count++.  sink records the call: its arguments, and the thread and the
\* frame it was made for.
ConsDoWrite(i) ==
  /\ thr_pc[i] = "dowrite"
  /\ sink' = Append(sink, [id |-> thr_frame[i].id, index |-> thr_count[i],
                           thread |-> i, frame |-> thr_frame[i],
                           pixels |-> OutPixels(thr_frame[i]),
                           width |-> thr_frame[i].width,
                           height |-> thr_frame[i].height])
  /\ thr_count' = [thr_count EXCEPT ![i] = NextCount(thr_count[i])]
  /\ thr_frame' = [thr_frame EXCEPT ![i] = NoFrame]
  /\ thr_pc' = [thr_pc EXCEPT ![i] = "pop"]
  /\ UNCHANGED <<shared, wrvars, ctlvars>>
  /\ UNCHANGED <<lockvars, frame_kinds>>

ConsStep(i) ==
  \/ ConsLoop(i)
  \/ ConsCheck(i)
  \/ ConsPop(i)
  \/ ConsClear(i)
  \/ ConsCallSink(i)
  \/ ConsDoWrite(i)

WriteStep(p) == WriteGate(p) \/ WritePush(p) \/ WriteFlag(p) \/ WriteNotify(p)

LifecycleStep == CloseFlag \/ CloseNotify \/ CloseJoin \/ OpenBody

Next ==
  \/ \E p \in Producers : WriteLock(p)
  \/ \E p \in Producers : WriteGate(p)
  \/ \E p \in Producers : WritePush(p)
  \/ \E p \in Producers : WriteFlag(p)
  \/ \E p \in Producers : WriteNotify(p)
  \/ CloseBegin
  \/ OpenBegin
  \/ CloseFlag
  \/ CloseNotify
  \/ CloseJoin
  \/ OpenBody
  \/ \E i \in Threads : ConsLoop(i)
  \/ \E i \in Threads : ConsCheck(i)
  \/ \E i \in Threads : ConsSpurious(i)
  \/ \E i \in Threads : ConsPop(i)
  \/ \E i \in Threads : ConsClear(i)
  \/ \E i \in Threads : ConsCallSink(i)
  \/ \E i \in Threads : ConsDoWrite(i)

Spec == Init /\ [][Next]_vars

\* A step of a call that has been entered: write() past its lock, close()
\* past its test, the rest of open().  Lifecycle calls and write() calls do
\* not overlap, so at most one caller is inside a call.
CallerStep == (\E p \in Producers : WriteStep(p)) \/ LifecycleStep

\* Scheduling: the consumer thread keeps running while it can, and a call
\* that has been entered runs on; nobody is obliged to call open(), close()
\* or write(), and wait() is not obliged to return spuriously.
FairSpec ==
  /\ Spec
  /\ WF_vars(\E i \in Threads : ConsStep(i))
  /\ WF_vars(CallerStep)

\* line 149: the exception leaves the thread function of a boost::thread,
\* which ends the process (std::terminate): nothing runs after it.
Terminated == \E i \in Threads : thr_pc[i] = "terminated"

\* Runs whose callers also submit frames of two channels, which
\* writeFrames() has no branch for.
InitFrames == Constructed /\ frame_kinds = {PlainKind, TwoChannelKind}

NextFrames ==
  \/ ~Terminated /\ \E p \in Producers : WriteLock(p)
  \/ ~Terminated /\ \E p \in Producers : WriteGate(p)
  \/ ~Terminated /\ \E p \in Producers : WritePush(p)
  \/ ~Terminated /\ \E p \in Producers : WriteFlag(p)
  \/ ~Terminated /\ \E p \in Producers : WriteNotify(p)
  \/ ~Terminated /\ CloseBegin
  \/ ~Terminated /\ OpenBegin
  \/ ~Terminated /\ CloseFlag
  \/ ~Terminated /\ CloseNotify
  \/ ~Terminated /\ CloseJoin
  \/ ~Terminated /\ OpenBody
  \/ ~Terminated /\ \E i \in Threads : ConsLoop(i)
  \/ ~Terminated /\ \E i \in Threads : ConsCheck(i)
  \/ ~Terminated /\ \E i \in Threads : ConsSpurious(i)
  \/ ~Terminated /\ \E i \in Threads : ConsPop(i)
  \/ ~Terminated /\ \E i \in Threads : ConsClear(i)
  \/ ~Terminated /\ \E i \in Threads : ConsCallSink(i)
  \/ ~Terminated /\ \E i \in Threads : ConsDoWrite(i)

SpecFrames == InitFrames /\ [][NextFrames]_vars

\* Runs whose callers also submit frames of no width; write() takes any
\* frame.
InitZeroWidth == Constructed /\ frame_kinds = {PlainKind, ZeroWidthKind}

SpecZeroWidth == InitZeroWidth /\ [][Next]_vars

\* ------------------------------------------- the critical sections, split
\* The same operations with every lock_guard / unique_lock of
\* frame_buffer_mutex and frames_available_mutex as two steps: taking the
\* mutex, which waits until it is free, and the guarded statements up to
\* the end of the scope, which releases it.

\* line 172: lock_guard on frame_buffer_mutex in write().
LkPushLock(p) ==
  /\ wr_pc[p] = "push"
  /\ frame_buffer_mutex = Free
  /\ frame_buffer_mutex' = <<"write", p>>
  /\ wr_pc' = [wr_pc EXCEPT ![p] = "push_locked"]
  /\ UNCHANGED <<shared, write_mutex, wr_frame, nwrites, accepted, ctlvars,
                 thrvars, frames_available_mutex, frame_kinds>>

\* line 173-175: frame_buffer.push(frame), end of scope.
LkPush(p) ==
  /\ wr_pc[p] = "push_locked"
  /\ frame_buffer' = Append(frame_buffer, wr_frame[p])
  /\ frame_buffer_mutex' = Free
  /\ wr_pc' = [wr_pc EXCEPT ![p] = "flag"]
  /\ UNCHANGED <<is_open, frame_info_open, frame_info, start_time,
                 last_timestamp, frame_index, frames_available,
                 frame_writer_thread, write_mutex, wr_frame, nwrites,
                 accepted, ctlvars, thrvars, frames_available_mutex,
                 frame_kinds>>

\* line 178: lock_guard on frames_available_mutex in write().
LkFlagLock(p) ==
  /\ wr_pc[p] = "flag"
  /\ frames_available_mutex = Free
  /\ frames_available_mutex' = <<"write", p>>
  /\ wr_pc' = [wr_pc EXCEPT ![p] = "flag_locked"]
  /\ UNCHANGED <<shared, write_mutex, wr_frame, nwrites, accepted, ctlvars,
                 thrvars, frame_buffer_mutex, frame_kinds>>

\* line 179-181: frames_available = true, end of scope.
LkFlag(p) ==
  /\ wr_pc[p] = "flag_locked"
  /\ frames_available' = TRUE
  /\ frames_available_mutex' = Free
  /\ wr_pc' = [wr_pc EXCEPT ![p] = "notify"]
  /\ UNCHANGED <<is_open, frame_info_open, frame_info, start_time,
                 last_timestamp, frame_index, frame_buffer,
                 frame_writer_thread, write_mutex, wr_frame, nwrites,
                 accepted, ctlvars, thrvars, frame_buffer_mutex, frame_kinds>>

\* line 90: lock_guard on frames_available_mutex in close().
LkCloseFlagLock ==
  /\ ctl_pc = "close_flag"
  /\ frames_available_mutex = Free
  /\ frames_available_mutex' = <<"close">>
  /\ ctl_pc' = "close_flag_locked"
  /\ UNCHANGED <<shared, wrvars, ctl_op, nthreads, first_pending, thrvars,
                 frame_buffer_mutex, frame_kinds>>

\* line 91-93: frames_available = true, end of scope.
LkCloseFlag ==
  /\ ctl_pc = "close_flag_locked"
  /\ frames_available' = TRUE
  /\ frames_available_mutex' = Free
  /\ ctl_pc' = "close_notify"
  /\ UNCHANGED <<is_open, frame_info_open, frame_info, start_time,
                 last_timestamp, frame_index, frame_buffer,
                 frame_writer_thread, wrvars, ctl_op, nthreads,
                 first_pending, thrvars, frame_buffer_mutex, frame_kinds>>

\* line 106: unique_lock on frames_available_mutex in writeFrames(); a
\* wait() that returns takes the mutex again in the same way.
LkCheckLock(i) ==
  /\ thr_pc[i] = "check"
  /\ frames_available_mutex = Free
  /\ frames_available_mutex' = <<"writeFrames", i>>
  /\ thr_pc' = [thr_pc EXCEPT ![i] = "check_locked"]
  /\ UNCHANGED <<shared, wrvars, ctlvars, thr_count, thr_frame, sink,
                 frame_buffer_mutex, frame_kinds>>

\* line 107-111: the test of frames_available; wait() releases the mutex
\* while it blocks, the end of the scope releases it otherwise.
LkCheck(i) ==
  /\ thr_pc[i] = "check_locked"
  /\ thr_pc' = [thr_pc EXCEPT ![i] = IF frames_available THEN "pop" ELSE "waiting"]
  /\ frames_available_mutex' = Free
  /\ UNCHANGED <<shared, wrvars, ctlvars, thr_count, thr_frame, sink,
                 frame_buffer_mutex, frame_kinds>>

\* line 116: lock_guard on frame_buffer_mutex in writeFrames().
LkPopLock(i) ==
  /\ thr_pc[i] = "pop"
  /\ frame_buffer_mutex = Free
  /\ frame_buffer_mutex' = <<"writeFrames", i>>
  /\ thr_pc' = [thr_pc EXCEPT ![i] = "pop_locked"]
  /\ UNCHANGED <<shared, wrvars, ctlvars, thr_count, thr_frame, sink,
                 frames_available_mutex, frame_kinds>>

\* Mutant of PopScopeEnd: the lock_guard of line 116 lives on to the end of
\* the loop body.
PopScopeEnd_Held(i) == <<"writeFrames", i>>

\* line 122: the scope of the lock_guard of line 116 ends before the frame
\* is looked at: frame_buffer_mutex is released.
PopScopeEnd(i) == Free

\* line 117-122: the pop, end of scope.
LkPop(i) ==
  /\ thr_pc[i] = "pop_locked"
  /\ IF Len(frame_buffer) > 0
       THEN /\ thr_frame' = [thr_frame EXCEPT ![i] = Front(frame_buffer)]
            /\ frame_buffer' = Popped(frame_buffer)
       ELSE /\ thr_frame' = [thr_frame EXCEPT ![i] = NoFrame]
            /\ UNCHANGED frame_buffer
  /\ frame_buffer_mutex' = PopScopeEnd(i)
  /\ thr_pc' = [thr_pc EXCEPT ![i] = "test"]
  /\ UNCHANGED <<is_open, frame_info_open, frame_info, start_time,
                 last_timestamp, frame_index, frames_available,
                 frame_writer_thread, wrvars, ctlvars, thr_count, sink,
                 frames_available_mutex, frame_kinds>>

\* line 124-126: a zero-width frame: lock_guard on frames_available_mutex.
LkClearLock(i) ==
  /\ thr_pc[i] = "test"
  /\ thr_frame[i].width = 0
  /\ frames_available_mutex = Free
  /\ frames_available_mutex' = <<"writeFrames", i>>
  /\ thr_pc' = [thr_pc EXCEPT ![i] = "clear_locked"]
  /\ UNCHANGED <<shared, wrvars, ctlvars, thr_count, thr_frame, sink,
                 frame_buffer_mutex, frame_kinds>>

\* line 127-129: frames_available = false, end of scope, break.
LkClear(i) ==
  /\ thr_pc[i] = "clear_locked"
  /\ frames_available' = FALSE
  /\ frames_available_mutex' = Free
  /\ thr_pc' = [thr_pc EXCEPT ![i] = "loop"]
  /\ UNCHANGED <<is_open, frame_info_open, frame_info, start_time,
                 last_timestamp, frame_index, frame_buffer,
                 frame_writer_thread, wrvars, ctlvars, thr_count, thr_frame,
                 sink, frame_buffer_mutex, frame_kinds>>

\* A step of write() by caller p once it holds write_mutex.
LkWriteStep(p) ==
  \/ WriteGate(p)
  \/ LkPushLock(p)
  \/ LkPush(p)
  \/ LkFlagLock(p)
  \/ LkFlag(p)
  \/ WriteNotify(p)

NextLocks ==
  \/ \E p \in Producers : WriteLock(p)
  \/ \E p \in Producers : WriteGate(p)
  \/ \E p \in Producers : LkPushLock(p)
  \/ \E p \in Producers : LkPush(p)
  \/ \E p \in Producers : LkFlagLock(p)
  \/ \E p \in Producers : LkFlag(p)
  \/ \E p \in Producers : WriteNotify(p)
  \/ CloseBegin
  \/ OpenBegin
  \/ LkCloseFlagLock
  \/ LkCloseFlag
  \/ CloseNotify
  \/ CloseJoin
  \/ OpenBody
  \/ \E i \in Threads : ConsLoop(i)
  \/ \E i \in Threads : LkCheckLock(i)
  \/ \E i \in Threads : LkCheck(i)
  \/ \E i \in Threads : ConsSpurious(i)
  \/ \E i \in Threads : LkPopLock(i)
  \/ \E i \in Threads : LkPop(i)
  \/ \E i \in Threads : LkClearLock(i)
  \/ \E i \in Threads : LkClear(i)
  \/ \E i \in Threads : ConsCallSink(i)
  \/ \E i \in Threads : ConsDoWrite(i)

SpecLocks == Init /\ [][NextLocks]_vars

\* The state after open() at time 0 and one completed write() of a frame
\* of kind k stamped 0, before the consumer thread has run.
AfterFirstWrite(k) ==
  /\ is_open = TRUE
  /\ frame_info_open = TRUE
  /\ frame_info = <<InfoLine(Frame(1, 0, k), 0)>>
  /\ start_time = 0
  /\ last_timestamp = 0
  /\ frame_index = 1
  /\ frames_available = TRUE
  /\ frame_buffer = <<Frame(1, 0, k)>>
  /\ frame_writer_thread = 1
  /\ write_mutex = 0
  /\ wr_pc = [p \in Producers |-> "idle"]
  /\ wr_frame = [p \in Producers |-> NoFrame]
  /\ ctl_pc = "idle"
  /\ ctl_op = "none"
  /\ thr_pc = [i \in Threads |-> IF i = 1 THEN "loop" ELSE "none"]
  /\ thr_count = [i \in Threads |-> InitialCount]
  /\ thr_frame = [i \in Threads |-> NoFrame]
  /\ nthreads = 1
  /\ nwrites = 1
  /\ accepted = <<[id |-> 1, timestamp |-> 0, session |-> 1]>>
  /\ sink = <<>>
  /\ first_pending = FALSE
  /\ frame_buffer_mutex = Free
  /\ frames_available_mutex = Free
  /\ frame_kinds = {k}

\* The consumer thread at work on one queued frame, for every frame of 3
\* or 4 channels within the bounds.
InitConv == \E k \in WellFormedKinds : AfterFirstWrite(k)

NextConv ==
  \/ \E i \in Threads : ConsLoop(i)
  \/ \E i \in Threads : ConsCheck(i)
  \/ \E i \in Threads : ConsSpurious(i)
  \/ \E i \in Threads : ConsPop(i)
  \/ \E i \in Threads : ConsClear(i)
  \/ \E i \in Threads : ConsCallSink(i)
  \/ \E i \in Threads : ConsDoWrite(i)

SpecConv == InitConv /\ [][NextConv]_vars

TypeOK ==
  /\ is_open \in BOOLEAN
  /\ frames_available \in BOOLEAN
  /\ Len(frame_buffer) <= MaxWrites
  /\ frame_writer_thread \in 0..MaxOpens
  /\ frame_buffer_mutex \in {Free} \cup Holders
  /\ frames_available_mutex \in {Free} \cup Holders
  /\ frame_kinds \subseteq Kinds
  /\ \A i \in Threads :
       thr_pc[i] \in {"none", "loop", "check", "check_locked", "waiting",
                      "pop", "pop_locked", "test", "clear_locked",
                      "dowrite", "done", "terminated"}

\* ------------------------------------------------------------ vocabulary
Live(i) == thr_pc[i] \notin {"none", "done"}

SinkIds == {sink[k].id : k \in DOMAIN sink}
BufferIds == {frame_buffer[k].id : k \in DOMAIN frame_buffer}
AcceptedIds == {accepted[k].id : k \in DOMAIN accepted}

\* The queue has fully drained: nothing queued, no write() in progress, no
\* lifecycle call in progress, and the consumer blocked in wait() or gone.
Drained ==
  /\ frame_buffer = <<>>
  /\ WritersIdle
  /\ ctl_pc = "idle"
  /\ \A i \in Threads : thr_pc[i] \in {"none", "done", "waiting"}

\* ------------------------------------------------------------------- C1
\* The frames accepted in the current open session.
SessionIds ==
  {accepted[k].id : k \in {j \in DOMAIN accepted : accepted[j].session = nthreads}}

\* C1: every frame accepted and enqueued by write() in an open session is
\* eventually forwarded to the sink, and no frame is forwarded twice, under
\* fair scheduling of the consumer and whether or not another call follows.
\* Stated for the runs in which the session is not closed meanwhile, which
\* the claim includes.
C1_EnqueuedEventuallyForwardedOnce ==
  /\ \A n \in 1..MaxWrites :
       (is_open /\ n \in BufferIds /\ n \in SessionIds)
         ~> (n \in SinkIds \/ ~is_open)
  /\ [](\A j, k \in DOMAIN sink : sink[j].id = sink[k].id => j = k)

\* ------------------------------------------------------------------- C2
\* C2: when close() on an open pipeline returns, the consumer thread has
\* terminated, frame_buffer is empty and every frame accepted before the
\* call has been forwarded to the sink.  Stated for the frames accepted in
\* the session that is being closed: none of them is still queued and all
\* of them have been forwarded.
C2_CloseReturnsDrained ==
  [][(ctl_pc = "close_join" /\ ctl_pc' # "close_join")
       => /\ \A i \in Threads : ~Live(i)'
          /\ SessionIds' \cap BufferIds' = {}
          /\ SessionIds' \subseteq SinkIds']_vars

\* ------------------------------------------------------------------- C3
\* C3: the sink receives the frames in acceptance order, one at a time: the
\* completed doWrite calls are, in order, the first accepted frames, a
\* doWrite in progress carries the next accepted frame, and at most one
\* doWrite is in progress.
InDoWrite == {i \in Threads : thr_pc[i] = "dowrite"}

C3_SinkInAcceptanceOrder ==
  /\ Len(sink) <= Len(accepted)
  /\ \A k \in DOMAIN sink : sink[k].id = accepted[k].id
  /\ Cardinality(InDoWrite) <= 1
  /\ \A i \in InDoWrite :
       /\ Len(sink) < Len(accepted)
       /\ thr_frame[i].id = accepted[Len(sink) + 1].id

\* Two frames have been forwarded.
C3_Witness == Len(sink) = 2 /\ sink[1].id # sink[2].id

\* ------------------------------------------------------------------- C4
\* The doWrite calls made by the current session's consumer thread.
SessionSinkCalls == {k \in DOMAIN sink : sink[k].thread = nthreads}

\* C4: whenever the queue has fully drained, the number of frame lines in
\* the session's sidecar file equals the number of frames the gate accepted
\* in the session and equals the number of doWrite calls of the session.
C4_LinesAcceptedSinkAgree ==
  (nthreads >= 1 /\ Drained)
    => /\ Len(frame_info) = Cardinality(SessionIds)
       /\ Len(frame_info) = Cardinality(SessionSinkCalls)

\* ------------------------------------------------------------------- C5
\* The number of doWrite calls thread t completed before the k-th sink call.
EarlierCalls(t, k) == Cardinality({j \in 1..(k - 1) : sink[j].thread = t})

\* C5: within one run of the consumer thread the k-th doWrite call, counting
\* from 0, carries sequence_index k.
C5_IndicesCountFromZero ==
  \A k \in DOMAIN sink : sink[k].index = EarlierCalls(sink[k].thread, k)

\* One thread has made a second doWrite call.
C5_Witness ==
  \E j, k \in DOMAIN sink :
    j < k /\ sink[j].thread = sink[k].thread /\ sink[k].index = 1

\* ------------------------------------------------------------------- C6
\* C6: two frames accepted one directly after the other in the same open
\* session are at least frame_duration apart.
C6_ThrottleInvariant ==
  \A k \in DOMAIN accepted :
    (k > 1 /\ accepted[k].session # 0
           /\ accepted[k - 1].session = accepted[k].session)
      => accepted[k].timestamp - accepted[k - 1].timestamp >= FrameDuration

\* Two frames have been accepted in one open session.
C6_Witness ==
  /\ Len(accepted) >= 2
  /\ accepted[1].session # 0
  /\ accepted[2].session = accepted[1].session

\* ------------------------------------------------------------------- C7
\* C7: a close() call that found the pipeline open eventually returns,
\* under fair scheduling.
C7_CloseReturns ==
  (ctl_pc \in {"close_flag", "close_notify", "close_join"})
    ~> (ctl_pc \in {"idle", "open_body"})

\* close() has returned from an open pipeline that had forwarded a frame.
C7_Witness ==
  /\ ctl_pc = "idle"
  /\ ~is_open
  /\ nthreads >= 1
  /\ \A i \in Threads : ~Live(i)
  /\ Len(sink) >= 1

\* ------------------------------------------------------------------- C8
\* C8: the consumer's count never exceeds frame_index, and the two are
\* equal whenever the queue has drained with the consumer idle.
C8_CountersConsistent ==
  \A i \in Threads :
    Live(i) => /\ thr_count[i] <= frame_index
               /\ Drained => thr_count[i] = frame_index

\* ------------------------------------------------------------------- C9
\* C9: at most one consumer thread is live, it is the one
\* frame_writer_thread names, and only it is inside doWrite.
C9_OneConsumerThread ==
  /\ Cardinality({i \in Threads : Live(i)}) <= 1
  /\ \A i \in Threads : Live(i) => i = frame_writer_thread

\* A second consumer thread runs after the first one has ended.
C9_Witness ==
  \E i, j \in Threads : thr_pc[i] = "done" /\ thr_pc[j] = "dowrite"

\* ------------------------------------------------------------------ C10
\* The first write() of an open session evaluates the gate.
FirstGate(p) == first_pending /\ is_open /\ wr_pc[p] = "gate" /\ wr_pc'[p] # "gate"

\* C10 as claimed: the first frame submitted after open() is accepted: a
\* metadata line is written, frame_index becomes 1 and the frame goes on to
\* be enqueued.
C10_FirstFrameAlwaysAccepted ==
  [][\A p \in Producers :
       FirstGate(p) => /\ Len(frame_info') = 1
                       /\ frame_index' = 1
                       /\ wr_pc'[p] = "push"]_vars

\* C10 amended: the first frame submitted after open() is accepted exactly
\* when its timestamp is not earlier than start_time; it is then that a
\* metadata line is written, frame_index becomes 1 and the frame goes on to
\* be enqueued, and otherwise nothing changes.
C10_FirstFrameAcceptedIffNotEarly ==
  [][\A p \in Producers :
       FirstGate(p) =>
         IF wr_frame[p].timestamp >= start_time
           THEN /\ Len(frame_info') = 1
                /\ frame_info'[1].id = wr_frame[p].id
                /\ frame_index' = 1
                /\ last_timestamp' = wr_frame[p].timestamp
                /\ wr_pc'[p] = "push"
           ELSE /\ wr_pc'[p] = "idle"
                /\ UNCHANGED <<frame_info, frame_index, last_timestamp,
                               frame_buffer, frames_available>>]_vars

\* The first frame of a session has been accepted and is about to be queued.
C10_Witness ==
  /\ is_open
  /\ ~first_pending
  /\ frame_index = 1
  /\ Len(frame_info) = 1
  /\ \E p \in Producers : wr_pc[p] = "push" /\ wr_frame[p].id = frame_info[1].id

\* ------------------------------------------------------------------ C11
\* C11: a write() whose frame arrives before frame_duration has elapsed
\* since the last accepted timestamp changes nothing: last_timestamp,
\* frame_index, the sidecar, frame_buffer and frames_available keep their
\* values, no consumer thread is woken, and the call returns.
C11_EarlyFrameChangesNothing ==
  [][\A p \in Producers :
       (/\ wr_pc[p] = "gate"
        /\ wr_pc'[p] # "gate"
        /\ last_timestamp # NotADateTime
        /\ wr_frame[p].timestamp - last_timestamp < FrameDuration)
         => /\ wr_pc'[p] = "idle"
            /\ write_mutex' = 0
            /\ UNCHANGED <<last_timestamp, frame_index, frame_info,
                           frame_info_open, frame_buffer, frames_available,
                           is_open, thr_pc, accepted, sink>>]_vars

\* A write() has returned without accepting its frame.
C11_Witness ==
  /\ WritersIdle
  /\ nwrites > Len(accepted)
  /\ last_timestamp # NotADateTime
\* ------------------------------------------------------------------ C12
\* C12: a frame whose channel count is neither 3 nor 4 is never forwarded
\* to the sink: the consumer loop throws without calling doWrite for it,
\* and after that no later frame is forwarded either.  Frame ids count in
\* acceptance order, so the later frames are those of a greater id.
C12_UnsupportedNeverForwarded ==
  /\ \A k \in DOMAIN sink : sink[k].frame.channels \in {3, 4}
  /\ \A i \in Threads :
       thr_pc[i] = "terminated"
         => /\ thr_frame[i].channels \notin {3, 4}
            /\ \A k \in DOMAIN sink : sink[k].id < thr_frame[i].id
            /\ \A j \in Threads : thr_pc[j] # "dowrite"

\* The consumer has thrown on a frame of two channels, and a frame that
\* was accepted later is queued behind it.
C12_Witness ==
  \E i \in Threads :
    /\ thr_pc[i] = "terminated"
    /\ thr_frame[i].channels = 2
    /\ \E k \in DOMAIN frame_buffer : frame_buffer[k].id > thr_frame[i].id
\* ------------------------------------------------------------------ C13
\* C13: frame submission never blocks on the consumer.  The consumer holds
\* neither frame_buffer_mutex nor frames_available_mutex while it converts
\* pixels or is inside doWrite; nobody waits for one of the three mutexes
\* while holding another in a cycle: whoever holds frame_buffer_mutex or
\* frames_available_mutex is inside the guarded statements, which take no
\* further mutex, and holds only that one of the two; and so a write()
\* that holds write_mutex can always take its next step while the consumer
\* is stalled inside the sink, and completes.
C13_SubmissionNeverBlocksOnConsumer ==
  /\ \A i \in Threads :
       thr_pc[i] \in {"test", "dowrite"}
         => /\ frame_buffer_mutex # <<"writeFrames", i>>
            /\ frames_available_mutex # <<"writeFrames", i>>
  /\ frame_buffer_mutex # Free => frames_available_mutex # frame_buffer_mutex
  /\ \A p \in Producers :
       /\ frame_buffer_mutex = <<"write", p>>
            => (wr_pc[p] = "push_locked" /\ write_mutex = p)
       /\ frames_available_mutex = <<"write", p>>
            => (wr_pc[p] = "flag_locked" /\ write_mutex = p)
  /\ \A i \in Threads :
       /\ frame_buffer_mutex = <<"writeFrames", i>> => thr_pc[i] = "pop_locked"
       /\ frames_available_mutex = <<"writeFrames", i>>
            => thr_pc[i] \in {"check_locked", "clear_locked"}
  /\ frame_buffer_mutex # <<"close">>
  /\ frames_available_mutex = <<"close">> => ctl_pc = "close_flag_locked"
  /\ \A p \in Producers :
       (write_mutex = p /\ \E i \in Threads : thr_pc[i] = "dowrite")
         => ENABLED LkWriteStep(p)

\* The consumer is inside doWrite while a write() call holds
\* frame_buffer_mutex and pushes the next frame.
C13_Witness ==
  /\ \E i \in Threads : thr_pc[i] = "dowrite"
  /\ \E p \in Producers : frame_buffer_mutex = <<"write", p>>

\* ------------------------------------------------------------------ C14
\* C14: close() is idempotent: close() on a pipeline that is closed (never
\* opened included) changes no state at all (frames_available is not
\* touched, nobody is signalled, nothing is joined), and a close() that
\* has returned leaves the pipeline closed, so that close() followed by
\* close() leaves the state of a single close().
C14_CloseIdempotent ==
  /\ [][(~is_open /\ CloseBegin) => UNCHANGED vars]_vars
  /\ [][(ctl_op = "close" /\ ctl_pc = "close_join" /\ ctl_pc' = "idle")
          => ~is_open']_vars

\* A close() has returned from a session that forwarded a frame, and the
\* pipeline is closed and idle: the state in which a second close() is
\* called, and the state it leaves.
C14_Witness ==
  /\ ~is_open
  /\ nthreads >= 1
  /\ Len(sink) >= 1
  /\ ENABLED CloseBegin
\* ------------------------------------------------------------------ C15
\* The timestamp the greedy reference compares against in an open session:
\* that of the frame accepted last in the session, or start_time -
\* frame_duration when the session has accepted none.
ReferenceLast ==
  LET S == {k \in DOMAIN accepted : accepted[k].session = nthreads}
  IN  IF S = {} THEN start_time - FrameDuration
      ELSE accepted[CHOOSE k \in S : \A j \in S : j <= k].timestamp

\* C15: the throttle decision is the greedy reference's: a frame submitted
\* to an open pipeline is accepted exactly when its timestamp is at least
\* frame_duration after that of the most recently accepted frame (after
\* start_time - frame_duration when there is none).  With 10 frames per
\* second and start_time 0 the submissions at 0, 30, 60, 100, 250 ms are
\* accepted at 0, 100, 250; and once a first session has drained there are
\* as many sidecar lines as accepted frames and as sink calls, the calls
\* indexed 0, 1, 2, ...
C15_GateIsGreedyReference ==
  /\ [][\A p \in Producers :
          (is_open /\ wr_pc[p] = "gate" /\ wr_pc'[p] # "gate")
            => ((wr_pc'[p] = "push" /\ Len(accepted') = Len(accepted) + 1)
                  <=> wr_frame[p].timestamp - ReferenceLast >= FrameDuration)]_vars
  /\ [](Passing(<<0, 30, 60, 100, 250>>, 0 - 100, 100) = <<0, 100, 250>>)
  /\ []((is_open /\ nthreads = 1 /\ Drained)
          => /\ Len(frame_info) = Len(accepted)
             /\ Len(sink) = Len(accepted)
             /\ \A k \in DOMAIN sink : sink[k].index = k - 1)

\* In one open session a frame has been accepted and forwarded and a
\* second submission has been decided, and the queue has drained.
C15_Witness ==
  /\ is_open
  /\ nthreads = 1
  /\ Drained
  /\ nwrites = 2
  /\ Len(sink) >= 1
C17_LineBeforePush ==
  /\ [][\A p \in Producers :
          (wr_pc[p] = "push" /\ wr_pc'[p] # "push")
            => /\ write_mutex = p
               /\ \E j \in DOMAIN frame_info : frame_info[j].id = wr_frame[p].id]_vars
  /\ [](\A j, k \in DOMAIN frame_info :
          j < k => frame_info[j].id < frame_info[k].id)
\* ------------------------------------------------------------------ C18
\* C18: the zero-width sentinel only arises from popping an empty queue:
\* no frame of width 0 is ever in frame_buffer, so a frame of width 0 that
\* the consumer tests is the default-constructed frame of a pop that found
\* the queue empty.
C18_SentinelOnlyFromEmptyQueue ==
  /\ \A k \in DOMAIN frame_buffer : frame_buffer[k].width # 0
  /\ \A i \in Threads :
       (thr_pc[i] = "test" /\ thr_frame[i].width = 0) => thr_frame[i] = NoFrame
\* ------------------------------------------------------------------ C19
\* C19: no lost wake-up: whenever the pipeline is open, frames_available
\* is false and the consumer is blocked in wait() or about to enter it,
\* frame_buffer is empty; a push that falls between the consumer's empty
\* pop and its clearing of the flag never leaves a frame queued with the
\* flag cleared.  Stated for the states in which no call is in progress
\* and for the frames accepted in the current session.
C19_NoLostWakeup ==
  (/\ is_open
   /\ ~frames_available
   /\ WritersIdle
   /\ ctl_pc = "idle"
   /\ thr_pc[nthreads] \in {"loop", "check", "waiting"})
    => SessionIds \cap BufferIds = {}
\* ------------------------------------------------------------------ C20
\* C20: sidecar names and sink indices stay aligned over any sequence of
\* open(), write() and close(): the frame recorded as frame_<k> in the
\* current session's sidecar is the frame the sink receives with index k
\* in that session; open() starts each session with an empty frame_buffer,
\* so no frame accepted before open() is forwarded to the new session's
\* sink.
C20_NamesAndIndicesAligned ==
  /\ [][(ctl_pc = "open_body" /\ ctl_pc' = "idle") => frame_buffer' = <<>>]_vars
  /\ [](\A k \in DOMAIN sink :
          sink[k].thread = nthreads
            => /\ sink[k].id \in SessionIds
               /\ \A j \in DOMAIN frame_info :
                    frame_info[j].name = sink[k].index
                      => frame_info[j].id = sink[k].id)
====
